---- MODULE Spec2Model ----
(***************************************************************************)
(* A model of the HTML section reducers of astropylibrarian:               *)
(*   reducers/utils.py    Section, iter_sphinx_sections,                   *)
(*                        iter_nbcollection_sections,                      *)
(*                        iter_nbcollection_content_elements               *)
(*   reducers/tutorial.py ReducedTutorial._process_html, clean_content     *)
(*                                                                         *)
(* Three specifications share the module:                                  *)
(*   SpecClean  clean_content applied once and twice to a bounded string   *)
(*   SpecFlat   iter_nbcollection_sections over a bounded element tree     *)
(*   Spec       ReducedTutorial._process_html, and with it                 *)
(*              iter_sphinx_sections, over a bounded document              *)
(*                                                                         *)
(* Strings are sequences of characters.  A character is a TLA+ string:     *)
(* "SP" is a space, "NL" a newline, "BS" a backslash, anything else a      *)
(* letter.                                                                 *)
(***************************************************************************)
EXTENDS Integers, Sequences, FiniteSets, TLC

VARIABLES
    mode,        \* which program runs: "clean", "flat" or "tutorial"
    \* ---- clean_content
    x,           \* the argument string
    once,        \* clean_content(x)
    twice,       \* clean_content(clean_content(x))
    cpc,         \* "start", "once", "twice"
    \* ---- iter_nbcollection_sections
    nb,          \* the element tree under root_element, in document order
    anchors,     \* whether headings carry an id and a pilcrow anchor link
    callbacks,   \* whether header_callback and content_callback are given
    fstack,      \* the frames of iter_nbcollection_content_elements
    stream,      \* the elements the filter has yielded so far
    current_section,
    emitted,     \* the Sections iter_nbcollection_sections has yielded
    fpc,         \* "run", "done"
    \* ---- ReducedTutorial._process_html
    doc,         \* the elements of the page, in document order
    pilcrows,    \* whether the heading texts end with a pilcrow
    stack,       \* the frames of iter_sphinx_sections
    yielded,     \* the Sections iter_sphinx_sections has yielded
    sections,    \* self._sections
    h1_heading,
    sib,         \* the index of the next following sibling of root_section
    tpc,         \* "root", "siblings", "done", "raised"
    error        \* the exception raised, or "none"

cleanVars == <<x, once, twice, cpc>>
flatVars == <<nb, anchors, callbacks, fstack, stream, current_section, emitted, fpc>>
tutorialVars == <<doc, pilcrows, stack, yielded, sections, h1_heading, sib, tpc, error>>
vars == <<mode, cleanVars, flatVars, tutorialVars>>

(***************************************************************************)
(* Bounds                                                                  *)
(***************************************************************************)
MaxStrLen == 4
MaxNbNodes == 4
MaxBlockChildren == 4
MaxNodes == 4
MaxOutlineNodes == 7

(***************************************************************************)
(* Strings                                                                 *)
(***************************************************************************)
Whitespace == {"SP", "NL"}

Alphabet == {"a", "n", "SP", "NL", "BS"}

RECURSIVE LStrip(_)
\* str.lstrip(): drop leading whitespace
LStrip(s) ==
    IF s = <<>> THEN <<>>
    ELSE IF Head(s) \in Whitespace THEN LStrip(Tail(s)) ELSE s

RECURSIVE RStrip(_)
\* str.rstrip(): drop trailing whitespace
RStrip(s) ==
    IF s = <<>> THEN <<>>
    ELSE IF s[Len(s)] \in Whitespace THEN RStrip(SubSeq(s, 1, Len(s) - 1)) ELSE s

\* str.strip()
Strip(s) == RStrip(LStrip(s))

RECURSIVE ReplaceChar(_, _, _)
\* str.replace(c, d) for single characters c and d
ReplaceChar(s, c, d) ==
    IF s = <<>> THEN <<>>
    ELSE <<IF Head(s) = c THEN d ELSE Head(s)>> \o ReplaceChar(Tail(s), c, d)

RECURSIVE ReplaceEscapedNewline(_)
\* str.replace(r"\n", " "): every backslash followed by the letter n,
\* scanned left to right without overlap, becomes one space
ReplaceEscapedNewline(s) ==
    IF Len(s) < 2 THEN s
    ELSE IF s[1] = "BS" /\ s[2] = "n"
         THEN <<"SP">> \o ReplaceEscapedNewline(SubSeq(s, 3, Len(s)))
         ELSE <<s[1]>> \o ReplaceEscapedNewline(Tail(s))

\* clean_content without its x.replace("\n", " ") step
clean_content_keeps_newlines(s) ==
    ReplaceChar(ReplaceEscapedNewline(Strip(s)), "BS", "SP")

\* tutorial.py clean_content
clean_content(s) ==
    ReplaceChar(ReplaceChar(ReplaceEscapedNewline(Strip(s)), "NL", "SP"), "BS", "SP")

RECURSIVE StringsOfLen(_)
StringsOfLen(n) ==
    IF n = 0 THEN {<<>>}
    ELSE {Append(s, c) : s \in StringsOfLen(n - 1), c \in Alphabet}

Strings == UNION {StringsOfLen(n) : n \in 0..MaxStrLen}

(***************************************************************************)
(* SpecClean: clean_content applied to a string, then to its own result.   *)
(***************************************************************************)
InitClean ==
    /\ mode = "clean"
    /\ x \in Strings
    /\ once = <<>>
    /\ twice = <<>>
    /\ cpc = "start"
    /\ nb = <<>>
    /\ anchors = FALSE
    /\ callbacks = FALSE
    /\ fstack = <<>>
    /\ stream = <<>>
    /\ current_section = <<>>
    /\ emitted = <<>>
    /\ fpc = "off"
    /\ doc = <<>>
    /\ pilcrows = FALSE
    /\ stack = <<>>
    /\ yielded = <<>>
    /\ sections = <<>>
    /\ h1_heading = <<>>
    /\ sib = 0
    /\ tpc = "off"
    /\ error = "none"

CleanOnce ==
    /\ mode = "clean"
    /\ cpc = "start"
    /\ once' = clean_content(x)
    /\ cpc' = "once"
    /\ UNCHANGED <<mode, x, twice, flatVars, tutorialVars>>

CleanTwice ==
    /\ mode = "clean"
    /\ cpc = "once"
    /\ twice' = clean_content(once)
    /\ cpc' = "twice"
    /\ UNCHANGED <<mode, x, once, flatVars, tutorialVars>>

NextClean == CleanOnce \/ CleanTwice

SpecClean == InitClean /\ [][NextClean]_vars

\* C7 (as stated): clean_content(clean_content(x)) = clean_content(x)
\* for every string x over letters, space, newline and backslash.
C7_Idempotent == cpc = "twice" => twice = once

\* C7 (amended): the result of clean_content holds no newline and no
\* backslash, and a second application only strips the leading and trailing
\* spaces the first one left, so it changes nothing when there are none.
C7_SecondCleanOnlyStrips ==
    /\ cpc \in {"once", "twice"} =>
          \A i \in 1..Len(once) : once[i] \notin {"NL", "BS"}
    /\ cpc = "twice" =>
          /\ twice = Strip(once)
          /\ (once = Strip(once) => twice = once)

\* a backslash at the end of the stripped argument became a trailing space,
\* and the second application removed it
C7_Witness ==
    /\ cpc = "twice"
    /\ x = <<"a", "NL", "n", "BS">>
    /\ once = <<"a", "SP", "n", "SP">>
    /\ twice = <<"a", "SP", "n">>

(***************************************************************************)
(* Element trees.  A tree is the sequence of its elements in document      *)
(* order; element i names its parent (0 for the first element, the root),  *)
(* so the children of p are the elements naming p, in increasing order.    *)
(***************************************************************************)
Ids(d) == [i \in 1..Len(d) |-> i]

\* iteration over an lxml element: its children in document order
ChildrenOf(d, p) == SelectSeq(Ids(d), LAMBDA i : d[i].parent = p)

RECURSIVE AncestorsOrSelf(_, _)
AncestorsOrSelf(d, i) ==
    IF i = 0 THEN {} ELSE {i} \cup AncestorsOrSelf(d, d[i].parent)

\* utils.py _HEADING_TAGS: the heading tags h1 .. h6, by their level
HeadingLevels == 1..6

(***************************************************************************)
(* The trees iter_nbcollection_sections is run on.  An element has a tag   *)
(* ("div", "h" with a level, or "p" for any other tag) and the set of its  *)
(* classes, of which the filter knows jp-RenderedHTMLCommon and            *)
(* CodeMirror.                                                             *)
(* The filter reads the class of an element only when it iterates that     *)
(* element, and the children of an element only when it iterates it or,    *)
(* under a jp-RenderedHTMLCommon root, counts them; classes and children   *)
(* it never reads are left out of the trees.  The walk is run on every     *)
(* tree of at most MaxNbNodes elements, and on every CodeMirror element of *)
(* at most MaxBlockChildren children, whose children are the stream.       *)
(***************************************************************************)
Rendered == "jp-RenderedHTMLCommon"

CodeMirror == "CodeMirror"

Classes == SUBSET {Rendered, CodeMirror}

NbElement(tag, level, classes, p) ==
    [tag |-> tag, level |-> level, classes |-> classes, parent |-> p]

RECURSIVE Iterated(_, _)
\* the filter is called with element p as its root_element
Iterated(d, p) ==
    \/ p = 1
    \/ /\ p > 1
       /\ d[p].tag = "div"
       /\ d[d[p].parent].classes = {}
       /\ Iterated(d, d[p].parent)

\* the children of an element that yields them: only the heading tags are
\* told apart there
YieldedOptions(p) ==
    {NbElement("p", 0, {}, p)} \cup {NbElement("h", l, {}, p) : l \in HeadingLevels}

\* the children of a div without either class: the divs are iterated in
\* their turn, every other tag is passed over
PlainOptions(p) ==
    {NbElement("div", 0, c, p) : c \in Classes}
        \cup {NbElement("p", 0, {}, p), NbElement("h", 1, {}, p)}

NbChildOptions(d, p) ==
    IF Iterated(d, p)
    THEN IF d[p].classes = {} THEN PlainOptions(p) ELSE YieldedOptions(p)
    ELSE IF Iterated(d, d[p].parent) /\ Rendered \in d[d[p].parent].classes
         THEN {NbElement("p", 0, {}, p)}
         ELSE {}

NbElements(maxParent) ==
    {NbElement("div", 0, c, p) : c \in Classes, p \in 1..maxParent}
        \cup {NbElement("p", 0, {}, p) : p \in 1..maxParent}
        \cup {NbElement("h", l, {}, p) : l \in HeadingLevels, p \in 1..maxParent}

\* the last element of t stands where document order allows it
ValidNbLast(t) ==
    LET n == Len(t)
        e == t[n]
    IN /\ e.parent \in AncestorsOrSelf(t, n - 1)
       /\ e \in NbChildOptions(t, e.parent)

RECURSIVE NbTreesOfSize(_)
NbTreesOfSize(n) ==
    IF n = 1 THEN {<<NbElement("div", 0, c, 0)>> : c \in Classes}
    ELSE {t \in {Append(d, e) : d \in NbTreesOfSize(n - 1), e \in NbElements(n - 1)} :
            ValidNbLast(t)}

\* every tree of at most maxNodes elements
NbTrees(maxNodes) == UNION {NbTreesOfSize(n) : n \in 1..maxNodes}

RECURSIVE CodeBlocksOfSize(_)
CodeBlocksOfSize(n) ==
    IF n = 0 THEN {<<NbElement("div", 0, {CodeMirror}, 0)>>}
    ELSE {Append(d, e) : d \in CodeBlocksOfSize(n - 1), e \in YieldedOptions(1)}

\* every CodeMirror element of at most maxChildren children
CodeBlocks(maxChildren) == UNION {CodeBlocksOfSize(n) : n \in 0..maxChildren}

(***************************************************************************)
(* Text.  The text of element i is the letter "t<i>" followed by a         *)
(* newline; the text of heading i is the letter T and the number i,        *)
(* followed by the pilcrow of its anchor link when headings carry anchors. *)
(***************************************************************************)
ElementText(i) == <<"t" \o ToString(i), "NL">>

HeadingText(i, withAnchor) ==
    IF withAnchor THEN <<"T", ToString(i), "PILCROW">> ELSE <<"T", ToString(i)>>

RECURSIVE RStripPilcrow(_)
\* the header_callback of tutorial.py: x.rstrip(pilcrow)
RStripPilcrow(s) ==
    IF s = <<>> THEN <<>>
    ELSE IF s[Len(s)] = "PILCROW" THEN RStripPilcrow(SubSeq(s, 1, Len(s) - 1)) ELSE s

BaseUrl == <<"BASE">>

\* f"{base_url}#{id}"
Url(id) == BaseUrl \o <<"#">> \o id

(***************************************************************************)
(* Section                                                                 *)
(***************************************************************************)
Section(content, headings, url) ==
    [content |-> content, headings |-> headings, url |-> url]

\* Section.header_level
header_level(sec) == Len(sec.headings)

\* Section.new_section
new_section(sec, level, header, url) ==
    IF level > header_level(sec)
    THEN Section(<<>>, sec.headings \o <<header>>, url)
    ELSE Section(<<>>, SubSeq(sec.headings, 1, level - 1) \o <<header>>, url)

(***************************************************************************)
(* iter_nbcollection_sections, with the generator                          *)
(* iter_nbcollection_content_elements it iterates.  A frame of the         *)
(* generator holds its root_element, the index of the child the outer loop *)
(* is at, and how many iterations of the inner loop are done.              *)
(***************************************************************************)
Frame(root, idx, inner) == [root |-> root, idx |-> idx, inner |-> inner]

TopFrame == fstack[Len(fstack)]

TopChildren == ChildrenOf(nb, TopFrame.root)

TopElement == TopChildren[TopFrame.idx]

InLoop ==
    /\ mode = "flat"
    /\ fpc = "run"
    /\ fstack # <<>>
    /\ TopFrame.idx <= Len(TopChildren)

ReplaceTop(f) == [fstack EXCEPT ![Len(fstack)] = f]

AdvanceTop == ReplaceTop(Frame(TopFrame.root, TopFrame.idx + 1, 0))

\* the flush test that only asks for a heading
flush_needed_without_content(sec) == sec.headings # <<>>

\* the test of the flush on a heading element
flush_needed(sec) == sec.headings # <<>> /\ sec.content # <<>>

\* a final test that always succeeds
final_yield_needed_always(sec) == TRUE

\* the test of the yield after the loop
final_yield_needed(sec) == sec.headings # <<>>

header_id(e) == IF anchors THEN <<"id" \o ToString(e)>> ELSE <<>>

header_content(e) ==
    IF callbacks THEN RStripPilcrow(HeadingText(e, anchors)) ELSE HeadingText(e, anchors)

element_content(e) ==
    IF callbacks THEN clean_content(ElementText(e)) ELSE ElementText(e)

\* the body of the loop of iter_nbcollection_sections for a yielded element
Consume(e) ==
    /\ stream' = Append(stream, e)
    /\ IF nb[e].tag = "h"
       THEN /\ emitted' = IF flush_needed(current_section)
                          THEN Append(emitted, current_section)
                          ELSE emitted
            /\ current_section' =
                   new_section(current_section, nb[e].level, header_content(e), Url(header_id(e)))
       ELSE /\ current_section' =
                   [current_section EXCEPT !.content = @ \o <<"SP">> \o element_content(e)]
            /\ UNCHANGED emitted

\* the CodeMirror branch yielding its root_element
code_mirror_yield_root(root, element) == root

\* what the CodeMirror branch yields
code_mirror_yield(root, element) == element

InitFlat ==
    /\ mode = "flat"
    /\ x = <<>>
    /\ once = <<>>
    /\ twice = <<>>
    /\ cpc = "off"
    /\ nb \in NbTrees(MaxNbNodes) \cup CodeBlocks(MaxBlockChildren)
    /\ anchors \in BOOLEAN
    /\ callbacks \in BOOLEAN
    /\ fstack = <<Frame(1, 1, 0)>>
    /\ stream = <<>>
    /\ current_section = Section(<<>>, <<>>, <<>>)
    /\ emitted = <<>>
    /\ fpc = "run"
    /\ doc = <<>>
    /\ pilcrows = FALSE
    /\ stack = <<>>
    /\ yielded = <<>>
    /\ sections = <<>>
    /\ h1_heading = <<>>
    /\ sib = 0
    /\ tpc = "off"
    /\ error = "none"

\* root_element is a jp-RenderedHTMLCommon: one more child of the element
\* is found, and the element is yielded
RenderedYield ==
    /\ InLoop
    /\ Rendered \in nb[TopFrame.root].classes
    /\ TopFrame.inner < Len(ChildrenOf(nb, TopElement))
    /\ Consume(TopElement)
    /\ fstack' = ReplaceTop(Frame(TopFrame.root, TopFrame.idx, TopFrame.inner + 1))
    /\ UNCHANGED <<mode, cleanVars, tutorialVars, nb, anchors, callbacks, fpc>>

\* root_element is a jp-RenderedHTMLCommon: the element has no more children
RenderedNext ==
    /\ InLoop
    /\ Rendered \in nb[TopFrame.root].classes
    /\ TopFrame.inner >= Len(ChildrenOf(nb, TopElement))
    /\ fstack' = AdvanceTop
    /\ UNCHANGED <<mode, cleanVars, tutorialVars, nb, anchors, callbacks, stream, current_section, emitted, fpc>>

\* root_element is a CodeMirror
CodeMirrorYield ==
    /\ InLoop
    /\ Rendered \notin nb[TopFrame.root].classes
    /\ CodeMirror \in nb[TopFrame.root].classes
    /\ Consume(code_mirror_yield(TopFrame.root, TopElement))
    /\ fstack' = AdvanceTop
    /\ UNCHANGED <<mode, cleanVars, tutorialVars, nb, anchors, callbacks, fpc>>

\* the element is a div: the generator is called on it
Descend ==
    /\ InLoop
    /\ Rendered \notin nb[TopFrame.root].classes
    /\ CodeMirror \notin nb[TopFrame.root].classes
    /\ nb[TopElement].tag = "div"
    /\ fstack' = Append(fstack, Frame(TopElement, 1, 0))
    /\ UNCHANGED <<mode, cleanVars, tutorialVars, nb, anchors, callbacks, stream, current_section, emitted, fpc>>

\* any other element is passed over
Skip ==
    /\ InLoop
    /\ Rendered \notin nb[TopFrame.root].classes
    /\ CodeMirror \notin nb[TopFrame.root].classes
    /\ nb[TopElement].tag # "div"
    /\ fstack' = AdvanceTop
    /\ UNCHANGED <<mode, cleanVars, tutorialVars, nb, anchors, callbacks, stream, current_section, emitted, fpc>>

\* a nested generator is exhausted: the loop of its caller goes on
Return ==
    /\ mode = "flat"
    /\ fpc = "run"
    /\ Len(fstack) > 1
    /\ TopFrame.idx > Len(TopChildren)
    /\ LET caller == fstack[Len(fstack) - 1]
       IN fstack' = Append(SubSeq(fstack, 1, Len(fstack) - 2),
                           Frame(caller.root, caller.idx + 1, 0))
    /\ UNCHANGED <<mode, cleanVars, tutorialVars, nb, anchors, callbacks, stream, current_section, emitted, fpc>>

\* the outermost generator is exhausted: the loop of
\* iter_nbcollection_sections ends
EndOfStream ==
    /\ mode = "flat"
    /\ fpc = "run"
    /\ Len(fstack) = 1
    /\ TopFrame.idx > Len(TopChildren)
    /\ emitted' = IF final_yield_needed(current_section)
                  THEN Append(emitted, current_section)
                  ELSE emitted
    /\ fstack' = <<>>
    /\ fpc' = "done"
    /\ UNCHANGED <<mode, cleanVars, tutorialVars, nb, anchors, callbacks, stream, current_section>>

NextFlat ==
    \/ RenderedYield
    \/ RenderedNext
    \/ CodeMirrorYield
    \/ Descend
    \/ Skip
    \/ Return
    \/ EndOfStream

SpecFlat == InitFlat /\ [][NextFlat]_vars

(***************************************************************************)
(* Properties of iter_nbcollection_sections and its filter                 *)
(***************************************************************************)
FlatDone == mode = "flat" /\ fpc = "done"

IsHeading(e) == nb[e].tag = "h"

ConsecutiveHeadingsAt(i) ==
    /\ i \in 1..(Len(stream) - 1)
    /\ IsHeading(stream[i])
    /\ IsHeading(stream[i + 1])

\* C2 (as stated): the stream [heading of level n titled A, content X,
\* heading of the same level n titled B, content Y] yields exactly two
\* Sections, the first with headings [A] and content " X", the second with
\* headings [B] and content " Y", for every level n.
C2_SameLevelHeadingOpensSibling ==
    ( /\ FlatDone
      /\ Len(stream) = 4
      /\ IsHeading(stream[1]) /\ ~IsHeading(stream[2])
      /\ IsHeading(stream[3]) /\ ~IsHeading(stream[4])
      /\ nb[stream[1]].level = nb[stream[3]].level )
    => /\ Len(emitted) = 2
       /\ emitted[1].headings = <<header_content(stream[1])>>
       /\ emitted[1].content = <<"SP">> \o element_content(stream[2])
       /\ emitted[2].headings = <<header_content(stream[3])>>
       /\ emitted[2].content = <<"SP">> \o element_content(stream[4])

\* C4 (as stated): when two headings follow one another in the stream with
\* no content between them, the second being possibly the last element of
\* the stream, no Section with empty content is emitted.
C4_NoEmptySectionEmitted ==
    (FlatDone /\ \E i \in 1..Len(stream) : ConsecutiveHeadingsAt(i))
    => \A k \in 1..Len(emitted) : emitted[k].content # <<>>

\* C4 (amended): the flush on a heading never emits a Section with empty
\* content; a Section with empty content is emitted only after the stream
\* has ended, as the last Section, and only when the last element of the
\* stream is a heading.
C4_EmptySectionOnlyAfterTrailingHeading ==
    \A k \in 1..Len(emitted) :
        emitted[k].content = <<>> =>
            /\ FlatDone
            /\ k = Len(emitted)
            /\ stream # <<>>
            /\ IsHeading(stream[Len(stream)])

\* two headings in a row, then content: the Section of the first heading was
\* dropped and the Section of the second was emitted with its content
C4_Witness ==
    /\ FlatDone
    /\ Len(stream) = 3
    /\ ConsecutiveHeadingsAt(1)
    /\ ~IsHeading(stream[3])
    /\ nb[stream[1]].level = 1 /\ nb[stream[2]].level = 1
    /\ Len(emitted) = 1
    /\ emitted[1].headings = <<header_content(stream[2])>>
    /\ emitted[1].content # <<>>

\* C5 (as stated): under a jp-RenderedHTMLCommon root the filter yields
\* each child of the root exactly once, in document order, whatever the
\* number of children of that child.
C5_RenderedRootYieldsEachChildOnce ==
    (FlatDone /\ Rendered \in nb[1].classes) => stream = ChildrenOf(nb, 1)

\* C6 (as stated): under a CodeMirror root the filter yields the root
\* itself exactly once, and none of its children.
C6_CodeRootYieldsItself ==
    (FlatDone /\ CodeMirror \in nb[1].classes) => stream = <<1>>

\* C6 (amended): under a CodeMirror root that is not a
\* jp-RenderedHTMLCommon as well, the filter yields each child of the root
\* exactly once, in document order, and never the root itself.
C6_CodeRootYieldsEachChildOnce ==
    (FlatDone /\ CodeMirror \in nb[1].classes /\ Rendered \notin nb[1].classes)
        => stream = ChildrenOf(nb, 1)

\* a CodeMirror root with several children, all of them yielded
C6_Witness ==
    /\ FlatDone
    /\ nb[1].classes = {CodeMirror}
    /\ Len(ChildrenOf(nb, 1)) >= 2
    /\ stream = ChildrenOf(nb, 1)

\* C8: every Section iter_nbcollection_sections yields has at least one
\* heading, and a stream without a heading element yields no Section at all.
C8_EmittedSectionsHaveHeadings ==
    /\ \A k \in 1..Len(emitted) : emitted[k].headings # <<>>
    /\ (FlatDone /\ \A i \in 1..Len(stream) : ~IsHeading(stream[i])) => emitted = <<>>

\* a stream of content elements only, consumed to its end
C8_Witness ==
    /\ FlatDone
    /\ Len(stream) >= 2
    /\ \A i \in 1..Len(stream) : ~IsHeading(stream[i])
    /\ current_section.content # <<>>
    /\ emitted = <<>>

(***************************************************************************)
(* The documents ReducedTutorial._process_html is run on.  Element 1 is    *)
(* root_section, the first ".card .section" element; the elements naming   *)
(* parent 0 after it are its following siblings.  An element is one of     *)
(*   "h"        a heading tag h1 .. h6 (the walk never reads the level),   *)
(*              whose text is its own title or the word Summary            *)
(*   "divsec"   a div of class "section"                                   *)
(*   "section"  a section tag                                              *)
(*   "other"    any other element                                          *)
(*   "comment"  an HtmlComment                                             *)
(*   "cellout"  an element of class "cell_output" below an "other" child   *)
(* The walk reads the kind of the children of the containers it reaches;   *)
(* below any other child it reads the text alone, and there a container is *)
(* a "divsec" and everything that is not noise an "other".  Every          *)
(* container carries an id attribute, as iter_sphinx_sections requires.    *)
(***************************************************************************)
DocElement(kind, summary, p) == [kind |-> kind, summary |-> summary, parent |-> p]

Containers == {"divsec", "section"}

RECURSIVE Walked(_, _)
\* iter_sphinx_sections is called on element p when nothing raises
Walked(d, p) ==
    /\ p > 0
    /\ d[p].kind \in Containers
    /\ \/ d[p].parent = 0 /\ d[p].kind = "divsec"
       \/ d[p].parent > 0 /\ Walked(d, d[p].parent)

\* what may stand below element p.  The outline documents (rich = FALSE)
\* hold containers, headings and paragraphs only.
DocChildOptions(d, p, rich) ==
    IF p = 0
    THEN {DocElement(k, FALSE, 0) : k \in IF rich THEN {"divsec", "section", "other"} ELSE {"divsec"}}
    ELSE IF Walked(d, p)
    THEN {DocElement("h", b, p) : b \in BOOLEAN}
            \cup {DocElement(k, FALSE, p) :
                    k \in IF rich THEN {"divsec", "section", "other", "comment"}
                                  ELSE {"divsec", "other"}}
    ELSE IF rich /\ d[p].parent > 0 /\ d[p].kind \in {"other", "divsec"}
    THEN {DocElement(k, FALSE, p) : k \in {"other", "divsec", "cellout"}}
    ELSE {}

DocElements(maxParent) ==
    {DocElement("h", TRUE, p) : p \in 1..maxParent}
        \cup {DocElement(k, FALSE, p) :
                k \in {"h", "divsec", "section", "other", "comment", "cellout"},
                p \in 0..maxParent}

\* the last element of t stands where document order allows it; in an
\* outline document every container begins with its heading, as the
\* docstring of iter_sphinx_sections asks of root_section
ValidLast(t, rich) ==
    LET n == Len(t)
        e == t[n]
    IN /\ e.parent \in {0} \cup AncestorsOrSelf(t, n - 1)
       /\ e \in DocChildOptions(t, e.parent, rich)
       /\ (~rich /\ t[n - 1].kind = "divsec") => (e.kind = "h" /\ e.parent = n - 1)

RECURSIVE DocsOfSize(_, _)
DocsOfSize(n, rich) ==
    IF n = 1 THEN {<<DocElement("divsec", FALSE, 0)>>}
    ELSE {t \in {Append(d, e) : d \in DocsOfSize(n - 1, rich), e \in DocElements(n - 1)} :
            ValidLast(t, rich)}

\* every document of at most maxNodes elements
RichDocs(maxNodes) == UNION {DocsOfSize(n, TRUE) : n \in 1..maxNodes}

\* every outline document of at most maxNodes elements
OutlineDocs(maxNodes) ==
    {t \in UNION {DocsOfSize(n, FALSE) : n \in 2..maxNodes} : t[Len(t)].kind # "divsec"}

(***************************************************************************)
(* Text of the documents                                                   *)
(***************************************************************************)
SummaryWord == <<"S", "u", "m", "m", "a", "r", "y">>

\* element.text_content() of heading i
DocHeadingText(d, i, withPilcrow) ==
    (IF d[i].summary THEN SummaryWord ELSE <<"T", ToString(i)>>)
        \o (IF withPilcrow THEN <<"PILCROW">> ELSE <<>>)

RECURSIVE Concat(_)
Concat(ss) == IF ss = <<>> THEN <<>> ELSE Head(ss) \o Concat(Tail(ss))

RECURSIVE TextContent(_, _)
\* text_content() of the copy of element i from which the cell_output
\* elements have been dropped
TextContent(d, i) ==
    IF d[i].kind = "cellout" THEN <<>>
    ELSE LET kids == ChildrenOf(d, i)
         IN ElementText(i) \o Concat([k \in 1..Len(kids) |-> TextContent(d, kids[k])])

RECURSIVE Join(_)
\* "\n\n".join(text_elements)
Join(ss) ==
    IF ss = <<>> THEN <<>>
    ELSE IF Len(ss) = 1 THEN ss[1]
    ELSE ss[1] \o <<"NL", "NL">> \o Join(Tail(ss))

LowerChar(c) == IF c = "S" THEN "s" ELSE IF c = "T" THEN "t" ELSE c

\* str.lower()
Lower(s) == [i \in 1..Len(s) |-> LowerChar(s[i])]

\* ReducedTutorial.ignored_headings
ignored_headings ==
    { <<"a", "u", "t", "h", "o", "r", "s">>,
      <<"k", "e", "y", "w", "o", "r", "d", "s">>,
      <<"s", "u", "m", "m", "a", "r", "y">> }

\* ReducedTutorial._is_ignored_section
is_ignored_section(sec) ==
    {Lower(sec.headings[i]) : i \in 1..Len(sec.headings)} \cap ignored_headings # {}

ContainerId(i) == <<"id" \o ToString(i)>>

(***************************************************************************)
(* ReducedTutorial._process_html: the two loops over iter_sphinx_sections. *)
(* A frame of iter_sphinx_sections holds its root_section, the index of    *)
(* the child its loop is at, its headers argument, current_headers with    *)
(* whether it has been assigned yet, and text_elements.  The metadata      *)
(* _process_html reads off the page (h1, authors, keywords, summary,       *)
(* images) takes no part in the sections and is left out.                  *)
(***************************************************************************)
SphinxFrame(root, idx, headers, current_headers, bound, text_elements) ==
    [root |-> root, idx |-> idx, headers |-> headers,
     current_headers |-> current_headers, bound |-> bound,
     text_elements |-> text_elements]

\* the frame of a call of iter_sphinx_sections, before its loop
Call(root, headers) == SphinxFrame(root, 1, headers, <<>>, FALSE, <<>>)

Cur == stack[Len(stack)]

CurChildren == ChildrenOf(doc, Cur.root)

CurElement == CurChildren[Cur.idx]

Walking ==
    /\ mode = "tutorial"
    /\ tpc \in {"root", "siblings"}
    /\ stack # <<>>

AtChild == Walking /\ Cur.idx <= Len(CurChildren)

SetCur(f) == [stack EXCEPT ![Len(stack)] = f]

\* the container test without its div.section half
is_container_section_tag_only(kind) == kind = "section"

\* element.tag == "section" or (element.tag == "div" and "section" in element.classes)
is_container(kind) == kind \in {"section", "divsec"}

\* the following siblings of root_section
Siblings == Tail(ChildrenOf(doc, 0))

Raise(e) ==
    /\ tpc' = "raised"
    /\ error' = e
    /\ stack' = <<>>

InitTutorial(docs) ==
    /\ mode = "tutorial"
    /\ x = <<>>
    /\ once = <<>>
    /\ twice = <<>>
    /\ cpc = "off"
    /\ nb = <<>>
    /\ anchors = FALSE
    /\ callbacks = FALSE
    /\ fstack = <<>>
    /\ stream = <<>>
    /\ current_section = <<>>
    /\ emitted = <<>>
    /\ fpc = "off"
    /\ doc \in docs
    /\ pilcrows \in BOOLEAN
    /\ stack = <<Call(1, <<>>)>>
    /\ yielded = <<>>
    /\ sections = <<>>
    /\ h1_heading = <<>>
    /\ sib = 1
    /\ tpc = "root"
    /\ error = "none"

\* a heading child: current_headers = headers + [header_callback(text)]
HeadingChild ==
    /\ AtChild
    /\ doc[CurElement].kind = "h"
    /\ stack' = SetCur([Cur EXCEPT
            !.current_headers =
                Cur.headers \o <<RStripPilcrow(DocHeadingText(doc, CurElement, pilcrows))>>,
            !.bound = TRUE,
            !.idx = @ + 1])
    /\ UNCHANGED <<mode, cleanVars, flatVars, doc, pilcrows, yielded, sections, h1_heading, sib, tpc, error>>

\* a container child after a heading: iter_sphinx_sections is called on it
\* with current_headers
NestedContainer ==
    /\ AtChild
    /\ is_container(doc[CurElement].kind)
    /\ Cur.bound
    /\ stack' = Append(stack, Call(CurElement, Cur.current_headers))
    /\ UNCHANGED <<mode, cleanVars, flatVars, doc, pilcrows, yielded, sections, h1_heading, sib, tpc, error>>

\* a container child before any heading: current_headers is read unassigned
NestedContainerUnbound ==
    /\ AtChild
    /\ is_container(doc[CurElement].kind)
    /\ ~Cur.bound
    /\ Raise("UnboundLocalError")
    /\ UNCHANGED <<mode, cleanVars, flatVars, doc, pilcrows, yielded, sections, h1_heading, sib>>

\* any other child: the text of its copy, without the cell_output elements,
\* goes through content_callback into text_elements
ContentChild ==
    /\ AtChild
    /\ doc[CurElement].kind \notin {"h", "comment"}
    /\ ~is_container(doc[CurElement].kind)
    /\ stack' = SetCur([Cur EXCEPT
            !.text_elements = Append(@, clean_content(TextContent(doc, CurElement))),
            !.idx = @ + 1])
    /\ UNCHANGED <<mode, cleanVars, flatVars, doc, pilcrows, yielded, sections, h1_heading, sib, tpc, error>>

\* an HtmlComment child: find_class and text_content raise ValueError, and
\* the loop goes on
CommentChild ==
    /\ AtChild
    /\ doc[CurElement].kind = "comment"
    /\ stack' = SetCur([Cur EXCEPT !.idx = @ + 1])
    /\ UNCHANGED <<mode, cleanVars, flatVars, doc, pilcrows, yielded, sections, h1_heading, sib, tpc, error>>

\* the loop is over: the Section of root_section is yielded, the caller
\* records it unless it is ignored, and the generator returns
YieldSection ==
    /\ Walking
    /\ Cur.idx > Len(CurChildren)
    /\ Cur.bound
    /\ LET sec == Section(Join(Cur.text_elements), Cur.current_headers,
                          Url(ContainerId(Cur.root)))
       IN /\ yielded' = Append(yielded, sec)
          /\ sections' = IF is_ignored_section(sec) THEN sections ELSE Append(sections, sec)
    /\ stack' = IF Len(stack) = 1 THEN <<>>
                ELSE LET caller == stack[Len(stack) - 1]
                     IN Append(SubSeq(stack, 1, Len(stack) - 2),
                               [caller EXCEPT !.idx = @ + 1])
    /\ UNCHANGED <<mode, cleanVars, flatVars, doc, pilcrows, h1_heading, sib, tpc, error>>

\* the loop is over and no child was a heading: current_headers is read
\* unassigned
YieldUnbound ==
    /\ Walking
    /\ Cur.idx > Len(CurChildren)
    /\ ~Cur.bound
    /\ Raise("UnboundLocalError")
    /\ UNCHANGED <<mode, cleanVars, flatVars, doc, pilcrows, yielded, sections, h1_heading, sib>>

\* after the first loop: h1_heading = self._sections[-1].headings[-1]
TakeH1Heading ==
    /\ mode = "tutorial"
    /\ tpc = "root"
    /\ stack = <<>>
    /\ sections # <<>>
    /\ LET last == sections[Len(sections)]
       IN h1_heading' = last.headings[Len(last.headings)]
    /\ tpc' = "siblings"
    /\ UNCHANGED <<mode, cleanVars, flatVars, doc, pilcrows, stack, yielded, sections, sib, error>>

\* after the first loop, with no section recorded
TakeH1HeadingOfNone ==
    /\ mode = "tutorial"
    /\ tpc = "root"
    /\ stack = <<>>
    /\ sections = <<>>
    /\ Raise("IndexError")
    /\ UNCHANGED <<mode, cleanVars, flatVars, doc, pilcrows, yielded, sections, h1_heading, sib>>

\* a following sibling that is a div of class "section": the walk is run on
\* it with headers = [h1_heading]
SiblingWalk ==
    /\ mode = "tutorial"
    /\ tpc = "siblings"
    /\ stack = <<>>
    /\ sib <= Len(Siblings)
    /\ doc[Siblings[sib]].kind = "divsec"
    /\ stack' = <<Call(Siblings[sib], <<h1_heading>>)>>
    /\ sib' = sib + 1
    /\ UNCHANGED <<mode, cleanVars, flatVars, doc, pilcrows, yielded, sections, h1_heading, tpc, error>>

\* any other following sibling is passed over
SiblingSkip ==
    /\ mode = "tutorial"
    /\ tpc = "siblings"
    /\ stack = <<>>
    /\ sib <= Len(Siblings)
    /\ doc[Siblings[sib]].kind # "divsec"
    /\ sib' = sib + 1
    /\ UNCHANGED <<mode, cleanVars, flatVars, doc, pilcrows, stack, yielded, sections, h1_heading, tpc, error>>

\* no sibling is left
SiblingsDone ==
    /\ mode = "tutorial"
    /\ tpc = "siblings"
    /\ stack = <<>>
    /\ sib > Len(Siblings)
    /\ tpc' = "done"
    /\ UNCHANGED <<mode, cleanVars, flatVars, doc, pilcrows, stack, yielded, sections, h1_heading, sib, error>>

Init == InitTutorial(RichDocs(MaxNodes) \cup OutlineDocs(MaxOutlineNodes))

Next ==
    \/ HeadingChild
    \/ NestedContainer
    \/ NestedContainerUnbound
    \/ ContentChild
    \/ CommentChild
    \/ YieldSection
    \/ YieldUnbound
    \/ TakeH1Heading
    \/ TakeH1HeadingOfNone
    \/ SiblingWalk
    \/ SiblingSkip
    \/ SiblingsDone

Spec == Init /\ [][Next]_vars

(***************************************************************************)
(* Properties of iter_sphinx_sections and of _process_html                 *)
(***************************************************************************)
RECURSIVE PostOrder(_, _)
\* the containers nested in container c as children of containers, each
\* after the ones nested in it, c last
PostOrder(d, c) ==
    LET kids == ChildrenOf(d, c)
    IN Concat([k \in 1..Len(kids) |->
                  IF d[kids[k]].kind \in Containers THEN PostOrder(d, kids[k]) ELSE <<>>])
       \o <<c>>

SectionUrl(c) == Url(ContainerId(c))

\* the letter of the text of element j occurs in the string
HasTextOf(content, j) == \E i \in 1..Len(content) : content[i] = ElementText(j)[1]

RECURSIVE NestedIn(_, _, _)
\* element j lies below element c
NestedIn(d, j, c) ==
    /\ j > 0
    /\ d[j].parent > 0
    /\ (d[j].parent = c \/ NestedIn(d, d[j].parent, c))

RECURSIVE ChainedIn(_, _, _)
\* container j lies below container c with containers only between them
ChainedIn(d, j, c) ==
    /\ j > 0
    /\ d[j].kind \in Containers
    /\ d[j].parent > 0
    /\ (d[j].parent = c \/ ChainedIn(d, d[j].parent, c))

RECURSIVE TopAncestor(_, _)
TopAncestor(d, j) == IF d[j].parent = 0 THEN j ELSE TopAncestor(d, d[j].parent)

HeadingChildren(d, c) == {j \in 1..Len(d) : d[j].parent = c /\ d[j].kind = "h"}

RootWalkOver == mode = "tutorial" /\ tpc \in {"siblings", "done", "raised"}

\* C1 (as stated): for any tree of containers, every container the walk
\* reaches yields exactly one Section, after the Sections of the containers
\* nested in it, so that the Section of the root container is yielded last.
C1_PostOrderOfContainers ==
    (RootWalkOver /\ \E n \in 1..Len(doc) : ChainedIn(doc, n, 1)) =>
        LET order == PostOrder(doc, 1)
        IN /\ Len(yielded) >= Len(order)
           /\ \A k \in 1..Len(order) : yielded[k].url = SectionUrl(order[k])

\* C3 (as stated): wherever a container lies below another container, be it
\* inside a child that is no container, none of the text inside it appears
\* in the content of the Section of the container above.
C3_NoTextOfAnyNestedContainer ==
    mode = "tutorial" =>
        \A k \in 1..Len(yielded) : \A c \in 1..Len(doc) :
            yielded[k].url = SectionUrl(c) =>
                \A n \in 1..Len(doc) :
                    (doc[n].kind \in Containers /\ NestedIn(doc, n, c)) =>
                        \A j \in 1..Len(doc) :
                            (j = n \/ NestedIn(doc, j, n)) => ~HasTextOf(yielded[k].content, j)

\* C3 (amended): where a container lies below another container with only
\* containers between them, none of the text inside it appears in the
\* content of the Section of the container above.  (A container inside a
\* child that is no container is not walked: its text is part of the text of
\* that child.)
C3_NoTextOfChainedContainer ==
    mode = "tutorial" =>
        \A k \in 1..Len(yielded) : \A c \in 1..Len(doc) :
            yielded[k].url = SectionUrl(c) =>
                \A n \in 1..Len(doc) :
                    ChainedIn(doc, n, c) =>
                        \A j \in 1..Len(doc) :
                            (j = n \/ NestedIn(doc, j, n)) => ~HasTextOf(yielded[k].content, j)

\* a container with text of its own and a nested container with text of its
\* own, each yielded with its own text alone
C3_Witness ==
    /\ mode = "tutorial"
    /\ tpc = "done"
    /\ \E k1, k2 \in 1..Len(yielded) : \E c, n, j1, j2 \in 1..Len(doc) :
          /\ k1 < k2
          /\ yielded[k1].url = SectionUrl(n)
          /\ yielded[k2].url = SectionUrl(c)
          /\ ChainedIn(doc, n, c)
          /\ doc[j1].parent = n /\ doc[j1].kind = "other"
          /\ doc[j2].parent = c /\ doc[j2].kind = "other"
          /\ HasTextOf(yielded[k1].content, j1)
          /\ HasTextOf(yielded[k2].content, j2)
          /\ ~HasTextOf(yielded[k2].content, j1)

\* C9 (as stated): every Section recorded from a sibling container of the
\* root container has the top heading of the root container as the first of
\* its headings, and a header_level of at least 2.
C9_SiblingSectionsUnderRootHeading ==
    mode = "tutorial" =>
        \A k \in 1..Len(sections) : \A c \in 1..Len(doc) :
            (sections[k].url = SectionUrl(c) /\ TopAncestor(doc, c) # 1)
            => /\ header_level(sections[k]) >= 2
               /\ \E h \in HeadingChildren(doc, 1) :
                     sections[k].headings[1] = RStripPilcrow(DocHeadingText(doc, h, pilcrows))

\* a container has no heading child, or a container child before its first
\* heading child
LacksLeadingHeading(d, c) ==
    \/ HeadingChildren(d, c) = {}
    \/ \E n \in 1..Len(d) :
          /\ d[n].parent = c
          /\ d[n].kind \in Containers
          /\ \A h \in HeadingChildren(d, c) : n < h

\* C10 (as stated): a container whose nested container comes before any
\* heading child, or that has no heading child, is walked without raising:
\* current_headers starts as the inherited chain, and the Section of the
\* container is yielded.
C10_WalkWithoutHeadingCompletes ==
    mode = "tutorial" =>
        /\ error # "UnboundLocalError"
        /\ (tpc \in {"siblings", "done"} /\ LacksLeadingHeading(doc, 1)) =>
              \E k \in 1..Len(yielded) : yielded[k].url = SectionUrl(1)
        /\ (tpc \in {"siblings", "done"} /\ HeadingChildren(doc, 1) = {}) =>
              \E k \in 1..Len(yielded) :
                  yielded[k].url = SectionUrl(1) /\ yielded[k].headings = <<>>

====
